---- MODULE Spec2Model ----
(***************************************************************************)
(* A model of fix_systemtime.py, the codemod that finds SystemTime::now()   *)
(* calls in a tree of Rust files, classifies them and rewrites them.        *)
(*                                                                         *)
(* Text is modelled as Python models it: a str is a sequence of            *)
(* one-character strings, a file is its content, readlines() splits the    *)
(* content after every "\n", and the regular expressions of the script are *)
(* matched character by character.                                         *)
(***************************************************************************)
EXTENDS Integers, Sequences, FiniteSets, TLC

(***************************************************************************)
(* Python str primitives                                                   *)
(***************************************************************************)

\* the smallest / largest element of a non-empty set of integers
Min(S) == CHOOSE x \in S : \A y \in S : x <= y

Max(S) == CHOOSE x \in S : \A y \in S : x >= y

\* s[i:i+len(p)] == p   (positions are 1-based here)
StartsAt(s, i, p) ==
    /\ i >= 1
    /\ i + Len(p) - 1 <= Len(s)
    /\ \A k \in 1..Len(p) : s[i + k - 1] = p[k]

\* the positions at which p occurs in s
Occurrences(s, p) == {i \in 1..(Len(s) - Len(p) + 1) : StartsAt(s, i, p)}

\* p in s
Contains(s, p) == \E i \in 1..(Len(s) - Len(p) + 1) : StartsAt(s, i, p)

\* s.find(p, from): the first position >= from at which p occurs, 0 for Python's -1
Find(s, p, from) ==
    LET occ == {i \in Occurrences(s, p) : i >= from}
    IN  IF occ = {} THEN 0 ELSE Min(occ)

\* s.rfind(p): the last position at which p occurs, 0 for Python's -1
RFind(s, p) ==
    LET occ == Occurrences(s, p)
    IN  IF occ = {} THEN 0 ELSE Max(occ)

\* the characters \s matches (those that occur in the modelled texts)
Whitespace == {" ", "\t", "\n", "\r"}

Digits == {"0", "1", "2", "3", "4", "5", "6", "7", "8", "9"}

LowerCase == {"a", "b", "c", "d", "e", "f", "g", "h", "i", "j", "k", "l", "m",
              "n", "o", "p", "q", "r", "s", "t", "u", "v", "w", "x", "y", "z"}

UpperCase == {"A", "B", "C", "D", "E", "F", "G", "H", "I", "J", "K", "L", "M",
              "N", "O", "P", "Q", "R", "S", "T", "U", "V", "W", "X", "Y", "Z"}

\* the characters \w matches
WordChars == LowerCase \cup UpperCase \cup Digits \cup {"_"}

\* s.strip()
Strip(s) ==
    LET keep == {i \in 1..Len(s) : s[i] \notin Whitespace}
    IN  IF keep = {} THEN <<>> ELSE SubSeq(s, Min(keep), Max(keep))

\* len(s) - len(s.lstrip())
LeadingWhitespace(s) ==
    LET keep == {i \in 1..Len(s) : s[i] \notin Whitespace}
    IN  IF keep = {} THEN Len(s) ELSE Min(keep) - 1

\* ' ' * n
Spaces(n) == [k \in 1..n |-> " "]

\* the positions of s that end a line: every "\n", and the last character
LineEnds(s) ==
    {i \in 1..Len(s) : s[i] = "\n"} \cup (IF Len(s) > 0 THEN {Len(s)} ELSE {})

\* the elements of a set of integers, in increasing order
RECURSIVE Sorted(_)
Sorted(S) == IF S = {} THEN <<>> ELSE <<Min(S)>> \o Sorted(S \ {Min(S)})

\* f.readlines(): the lines of s, each with its "\n"
ReadLines(s) ==
    LET ends == Sorted(LineEnds(s))
    IN  [k \in 1..Len(ends) |-> SubSeq(s, IF k = 1 THEN 1 ELSE ends[k - 1] + 1, ends[k])]

\* f.writelines(lines) / ''.join(lines)
RECURSIVE Join(_)
Join(lines) ==
    IF Len(lines) = 0 THEN <<>> ELSE Head(lines) \o Join(Tail(lines))

\* lines[i - 1] = x, for the i-th line
ListReplace(lines, i, x) == [k \in 1..Len(lines) |-> IF k = i THEN x ELSE lines[k]]

\* lines.insert(i, x) with 0 <= i <= len(lines), i 0-based
ListInsert(lines, i, x) ==
    SubSeq(lines, 1, i) \o <<x>> \o SubSeq(lines, i + 1, Len(lines))

(***************************************************************************)
(* The regular expressions of the script.  A pattern is a sequence of      *)
(* elements: a literal, an optional literal (?:..)?, \s*, \s+, \w+, .* or  *)
(* a repeated group (?:..)+.  MatchEnds is the set of positions at which a *)
(* match starting at i can end (the position after its last character);    *)
(* every quantifier of the script's patterns is greedy and is followed by  *)
(* something it cannot itself match, so the match re takes is the longest. *)
(***************************************************************************)
Lit(p) == [t |-> "lit", s |-> p]

Opt(p) == [t |-> "opt", s |-> p]

WS0 == [t |-> "ws0", s |-> <<>>]

WS1 == [t |-> "ws1", s |-> <<>>]

W1 == [t |-> "w1", s |-> <<>>]

Any0 == [t |-> "any0", s |-> <<>>]

Rep1(sub) == [t |-> "rep1", s |-> sub]

\* the first position >= i of s whose character is outside the class
\* (inside it, when negate), or Len(s) + 1
RunEnd(s, i, class, negate) ==
    LET in(j) == IF negate THEN s[j] \notin class ELSE s[j] \in class
    IN  CHOOSE j \in i..(Len(s) + 1) :
            /\ \A k \in i..(j - 1) : in(k)
            /\ j = Len(s) + 1 \/ ~in(j)

RECURSIVE MatchEnds(_, _, _)
RECURSIVE RepEnds(_, _, _, _)
MatchEnds(s, i, re) ==
    IF Len(re) = 0 THEN {i}
    ELSE LET h == Head(re)
             r == Tail(re)
             after(J) == UNION {MatchEnds(s, j, r) : j \in J}
         IN  CASE h.t = "lit" ->
                    IF StartsAt(s, i, h.s) THEN MatchEnds(s, i + Len(h.s), r) ELSE {}
               [] h.t = "opt" ->
                    (IF StartsAt(s, i, h.s) THEN MatchEnds(s, i + Len(h.s), r) ELSE {})
                        \cup MatchEnds(s, i, r)
               [] h.t = "ws0" -> after(i..RunEnd(s, i, Whitespace, FALSE))
               [] h.t = "ws1" -> after((i + 1)..RunEnd(s, i, Whitespace, FALSE))
               [] h.t = "w1" -> after((i + 1)..RunEnd(s, i, WordChars, FALSE))
               [] h.t = "any0" -> after(i..RunEnd(s, i, {"\n"}, TRUE))
               [] h.t = "rep1" -> after(RepEnds(s, MatchEnds(s, i, h.s), {}, h.s))

\* the ends of one or more repetitions of sub: frontier holds the ends not yet extended
RepEnds(s, frontier, done, sub) ==
    IF frontier = {} THEN done
    ELSE LET next == UNION {MatchEnds(s, j, sub) : j \in frontier}
             seen == done \cup frontier
         IN  RepEnds(s, next \ seen, seen, sub)

\* the first position >= from at which re matches, 0 when there is none
FirstMatch(s, re, from) ==
    LET at == {i \in from..Len(s) : MatchEnds(s, i, re) # {}}
    IN  IF at = {} THEN 0 ELSE Min(at)

\* re.search(re, s) is not None
Search(re, s) == \E i \in 1..Len(s) : MatchEnds(s, i, re) # {}

\* re.sub(re, repl, s, count): every match (the first count matches when
\* count > 0) is replaced, left to right, without overlap; keep is TRUE when
\* the replacement starts with \1 and the group is the whole match
RECURSIVE SubFrom(_, _, _, _, _, _)
SubFrom(s, from, re, repl, keep, count) ==
    LET i == FirstMatch(s, re, from)
    IN  IF i = 0 THEN SubSeq(s, from, Len(s))
        ELSE LET e == Max(MatchEnds(s, i, re))
                 new == (IF keep THEN SubSeq(s, i, e - 1) ELSE <<>>) \o repl
             IN  SubSeq(s, from, i - 1) \o new \o
                 (IF count = 1 THEN SubSeq(s, e, Len(s))
                  ELSE SubFrom(s, e, re, repl, keep, IF count = 0 THEN 0 ELSE count - 1))

Sub(re, repl, s) == SubFrom(s, 1, re, repl, FALSE, 0)

(***************************************************************************)
(* The texts and patterns of the script                                    *)
(***************************************************************************)

\* 'SystemTime::now()'
SystemTimeNow == (* SystemTime::now() *) <<"S","y","s","t","e","m","T","i","m","e",":",":","n","o","w","(",")">>

\* 'std::time::'
StdTime == (* std::time:: *) <<"s","t","d",":",":","t","i","m","e",":",":">>

\* find_systemtime_usage: pattern = r'(std::time::)?SystemTime::now\(\)'
pattern == <<Opt(StdTime), Lit(SystemTimeNow)>>

\* categorize_usage: r'let\s+\w+\s*=.*SystemTime::now'
let_pattern == <<Lit(<<"l","e","t">>), WS1, W1, WS0, Lit(<<"=">>), Any0, Lit((* SystemTime::now *) <<"S","y","s","t","e","m","T","i","m","e",":",":","n","o","w">>)>>

\* fix_direct_assignments: r'let\s+\w+\s*=.*SystemTime::now\(\)'
let_call_pattern == <<Lit(<<"l","e","t">>), WS1, W1, WS0, Lit(<<"=">>), Any0, Lit(SystemTimeNow)>>

\* the nine field names of fix_struct_fields, in the order of its list
FieldNames ==
    << (* created_at *) <<"c","r","e","a","t","e","d","_","a","t">>, (* timestamp *) <<"t","i","m","e","s","t","a","m","p">>, (* last_activity *) <<"l","a","s","t","_","a","c","t","i","v","i","t","y">>, (* started_at *) <<"s","t","a","r","t","e","d","_","a","t">>, (* generated_at *) <<"g","e","n","e","r","a","t","e","d","_","a","t">>,
       (* recorded_at *) <<"r","e","c","o","r","d","e","d","_","a","t">>, (* exported_at *) <<"e","x","p","o","r","t","e","d","_","a","t">>, (* executed_at *) <<"e","x","e","c","u","t","e","d","_","a","t">>, (* connected_at *) <<"c","o","n","n","e","c","t","e","d","_","a","t">> >>

\* fixes[k]: the pattern and the replacement of the k-th field.  The first
\* pattern is r'created_at:\s*SystemTime::now\(\),?'; the other eight are
\* r'<field>:\s*(?:std::time::)?SystemTime::now\(\),?'
fixes(k) ==
    [pattern |-> IF k = 1
                 THEN <<Lit(FieldNames[k] \o <<":">>), WS0, Lit(SystemTimeNow), Opt(<<",">>)>>
                 ELSE <<Lit(FieldNames[k] \o <<":">>), WS0, Opt(StdTime), Lit(SystemTimeNow), Opt(<<",">>)>>,
     replacement |-> FieldNames[k] \o (* : current_timestamp, *) <<":"," ","c","u","r","r","e","n","t","_","t","i","m","e","s","t","a","m","p",",">>]

\* fix_timestamp_conversions: the three call chains and their replacements
millis_try_pattern ==
    <<Lit((* SystemTime::now().duration_since( *) <<"S","y","s","t","e","m","T","i","m","e",":",":","n","o","w","(",")",".","d","u","r","a","t","i","o","n","_","s","i","n","c","e","(">>), Opt(StdTime), Lit((* UNIX_EPOCH)?.as_millis() as u64 *) <<"U","N","I","X","_","E","P","O","C","H",")","?",".","a","s","_","m","i","l","l","i","s","(",")"," ","a","s"," ","u","6","4">>)>>

secs_try_pattern ==
    <<Lit((* SystemTime::now().duration_since( *) <<"S","y","s","t","e","m","T","i","m","e",":",":","n","o","w","(",")",".","d","u","r","a","t","i","o","n","_","s","i","n","c","e","(">>), Opt(StdTime), Lit((* UNIX_EPOCH)?.as_secs() *) <<"U","N","I","X","_","E","P","O","C","H",")","?",".","a","s","_","s","e","c","s","(",")">>)>>

millis_unwrap_pattern ==
    <<Lit((* SystemTime::now().duration_since( *) <<"S","y","s","t","e","m","T","i","m","e",":",":","n","o","w","(",")",".","d","u","r","a","t","i","o","n","_","s","i","n","c","e","(">>), Opt(StdTime), Lit((* UNIX_EPOCH).unwrap().as_millis() *) <<"U","N","I","X","_","E","P","O","C","H",")",".","u","n","w","r","a","p","(",")",".","a","s","_","m","i","l","l","i","s","(",")">>)>>

\* 'current_unix_timestamp()'
HelperCall == (* current_unix_timestamp() *) <<"c","u","r","r","e","n","t","_","u","n","i","x","_","t","i","m","e","s","t","a","m","p","(",")">>

\* 'current_unix_timestamp() * 1000'
HelperCallMillis == (* current_unix_timestamp() * 1000 *) <<"c","u","r","r","e","n","t","_","u","n","i","x","_","t","i","m","e","s","t","a","m","p","(",")"," ","*"," ","1","0","0","0">>

\* 'fn current_unix_timestamp() -> u64'
HelperSignature == (* fn current_unix_timestamp() -> u64 *) <<"f","n"," ","c","u","r","r","e","n","t","_","u","n","i","x","_","t","i","m","e","s","t","a","m","p","(",")"," ","-",">"," ","u","6","4">>

\* the helper_function text of fix_timestamp_conversions
helper_function ==
    <<"\n">> \o
    (* fn current_unix_timestamp() -> u64 {\n *) <<"f","n"," ","c","u","r","r","e","n","t","_","u","n","i","x","_","t","i","m","e","s","t","a","m","p","(",")"," ","-",">"," ","u","6","4"," ","{","\n">> \o
    (*     // TODO: Replace with injected time source in production\n *) <<" "," "," "," ","/","/"," ","T","O","D","O",":"," ","R","e","p","l","a","c","e"," ","w","i","t","h"," ","i","n","j","e","c","t","e","d"," ","t","i","m","e"," ","s","o","u","r","c","e"," ","i","n"," ","p","r","o","d","u","c","t","i","o","n","\n">> \o
    (*     #[allow(clippy::disallowed_methods)]\n *) <<" "," "," "," ","#","[","a","l","l","o","w","(","c","l","i","p","p","y",":",":","d","i","s","a","l","l","o","w","e","d","_","m","e","t","h","o","d","s",")","]","\n">> \o
    (*     std::time::SystemTime::now()\n *) <<" "," "," "," ","s","t","d",":",":","t","i","m","e",":",":","S","y","s","t","e","m","T","i","m","e",":",":","n","o","w","(",")","\n">> \o
    (*         .duration_since(std::time::UNIX_EPOCH)\n *) <<" "," "," "," "," "," "," "," ",".","d","u","r","a","t","i","o","n","_","s","i","n","c","e","(","s","t","d",":",":","t","i","m","e",":",":","U","N","I","X","_","E","P","O","C","H",")","\n">> \o
    (*         .unwrap_or_default()\n *) <<" "," "," "," "," "," "," "," ",".","u","n","w","r","a","p","_","o","r","_","d","e","f","a","u","l","t","(",")","\n">> \o
    (*         .as_secs()\n *) <<" "," "," "," "," "," "," "," ",".","a","s","_","s","e","c","s","(",")","\n">> \o
    <<"}","\n">> \o
    <<"\n">>

\* '#[allow(clippy::disallowed_methods)]\n'
AllowAttribute == (* #[allow(clippy::disallowed_methods)]\n *) <<"#","[","a","l","l","o","w","(","c","l","i","p","p","y",":",":","d","i","s","a","l","l","o","w","e","d","_","m","e","t","h","o","d","s",")","]","\n">>

\* the utils_content text of create_time_helper_functions
utils_content ==
    (* //! Time utility functions for the Aura codebase\n *) <<"/","/","!"," ","T","i","m","e"," ","u","t","i","l","i","t","y"," ","f","u","n","c","t","i","o","n","s"," ","f","o","r"," ","t","h","e"," ","A","u","r","a"," ","c","o","d","e","b","a","s","e","\n">> \o
    (* //!\n *) <<"/","/","!","\n">> \o
    (* //! This module provides centralized time functions that can be easily\n *) <<"/","/","!"," ","T","h","i","s"," ","m","o","d","u","l","e"," ","p","r","o","v","i","d","e","s"," ","c","e","n","t","r","a","l","i","z","e","d"," ","t","i","m","e"," ","f","u","n","c","t","i","o","n","s"," ","t","h","a","t"," ","c","a","n"," ","b","e"," ","e","a","s","i","l","y","\n">> \o
    (* //! replaced with injectable time sources for testing and deterministic execution.\n *) <<"/","/","!"," ","r","e","p","l","a","c","e","d"," ","w","i","t","h"," ","i","n","j","e","c","t","a","b","l","e"," ","t","i","m","e"," ","s","o","u","r","c","e","s"," ","f","o","r"," ","t","e","s","t","i","n","g"," ","a","n","d"," ","d","e","t","e","r","m","i","n","i","s","t","i","c"," ","e","x","e","c","u","t","i","o","n",".","\n">> \o
    <<"\n">> \o
    (* use std::time::{SystemTime, UNIX_EPOCH};\n *) <<"u","s","e"," ","s","t","d",":",":","t","i","m","e",":",":","{","S","y","s","t","e","m","T","i","m","e",","," ","U","N","I","X","_","E","P","O","C","H","}",";","\n">> \o
    <<"\n">> \o
    (* /// Get current Unix timestamp in seconds\n *) <<"/","/","/"," ","G","e","t"," ","c","u","r","r","e","n","t"," ","U","n","i","x"," ","t","i","m","e","s","t","a","m","p"," ","i","n"," ","s","e","c","o","n","d","s","\n">> \o
    (* /// \n *) <<"/","/","/"," ","\n">> \o
    (* /// TODO: Replace with injected time source in production\n *) <<"/","/","/"," ","T","O","D","O",":"," ","R","e","p","l","a","c","e"," ","w","i","t","h"," ","i","n","j","e","c","t","e","d"," ","t","i","m","e"," ","s","o","u","r","c","e"," ","i","n"," ","p","r","o","d","u","c","t","i","o","n","\n">> \o
    (* pub fn current_unix_timestamp() -> u64 {\n *) <<"p","u","b"," ","f","n"," ","c","u","r","r","e","n","t","_","u","n","i","x","_","t","i","m","e","s","t","a","m","p","(",")"," ","-",">"," ","u","6","4"," ","{","\n">> \o
    (*     #[allow(clippy::disallowed_methods)]\n *) <<" "," "," "," ","#","[","a","l","l","o","w","(","c","l","i","p","p","y",":",":","d","i","s","a","l","l","o","w","e","d","_","m","e","t","h","o","d","s",")","]","\n">> \o
    (*     SystemTime::now()\n *) <<" "," "," "," ","S","y","s","t","e","m","T","i","m","e",":",":","n","o","w","(",")","\n">> \o
    (*         .duration_since(UNIX_EPOCH)\n *) <<" "," "," "," "," "," "," "," ",".","d","u","r","a","t","i","o","n","_","s","i","n","c","e","(","U","N","I","X","_","E","P","O","C","H",")","\n">> \o
    (*         .unwrap_or_default()\n *) <<" "," "," "," "," "," "," "," ",".","u","n","w","r","a","p","_","o","r","_","d","e","f","a","u","l","t","(",")","\n">> \o
    (*         .as_secs()\n *) <<" "," "," "," "," "," "," "," ",".","a","s","_","s","e","c","s","(",")","\n">> \o
    <<"}","\n">> \o
    <<"\n">> \o
    (* /// Get current Unix timestamp in milliseconds\n *) <<"/","/","/"," ","G","e","t"," ","c","u","r","r","e","n","t"," ","U","n","i","x"," ","t","i","m","e","s","t","a","m","p"," ","i","n"," ","m","i","l","l","i","s","e","c","o","n","d","s","\n">> \o
    (* /// \n *) <<"/","/","/"," ","\n">> \o
    (* /// TODO: Replace with injected time source in production  \n *) <<"/","/","/"," ","T","O","D","O",":"," ","R","e","p","l","a","c","e"," ","w","i","t","h"," ","i","n","j","e","c","t","e","d"," ","t","i","m","e"," ","s","o","u","r","c","e"," ","i","n"," ","p","r","o","d","u","c","t","i","o","n"," "," ","\n">> \o
    (* pub fn current_unix_timestamp_millis() -> u64 {\n *) <<"p","u","b"," ","f","n"," ","c","u","r","r","e","n","t","_","u","n","i","x","_","t","i","m","e","s","t","a","m","p","_","m","i","l","l","i","s","(",")"," ","-",">"," ","u","6","4"," ","{","\n">> \o
    (*     #[allow(clippy::disallowed_methods)]\n *) <<" "," "," "," ","#","[","a","l","l","o","w","(","c","l","i","p","p","y",":",":","d","i","s","a","l","l","o","w","e","d","_","m","e","t","h","o","d","s",")","]","\n">> \o
    (*     SystemTime::now()\n *) <<" "," "," "," ","S","y","s","t","e","m","T","i","m","e",":",":","n","o","w","(",")","\n">> \o
    (*         .duration_since(UNIX_EPOCH)\n *) <<" "," "," "," "," "," "," "," ",".","d","u","r","a","t","i","o","n","_","s","i","n","c","e","(","U","N","I","X","_","E","P","O","C","H",")","\n">> \o
    (*         .unwrap_or_default()\n *) <<" "," "," "," "," "," "," "," ",".","u","n","w","r","a","p","_","o","r","_","d","e","f","a","u","l","t","(",")","\n">> \o
    (*         .as_millis() as u64\n *) <<" "," "," "," "," "," "," "," ",".","a","s","_","m","i","l","l","i","s","(",")"," ","a","s"," ","u","6","4","\n">> \o
    <<"}","\n">> \o
    <<"\n">> \o
    (* /// Get current SystemTime\n *) <<"/","/","/"," ","G","e","t"," ","c","u","r","r","e","n","t"," ","S","y","s","t","e","m","T","i","m","e","\n">> \o
    (* /// \n *) <<"/","/","/"," ","\n">> \o
    (* /// TODO: Replace with injected time source in production\n *) <<"/","/","/"," ","T","O","D","O",":"," ","R","e","p","l","a","c","e"," ","w","i","t","h"," ","i","n","j","e","c","t","e","d"," ","t","i","m","e"," ","s","o","u","r","c","e"," ","i","n"," ","p","r","o","d","u","c","t","i","o","n","\n">> \o
    (* pub fn current_system_time() -> SystemTime {\n *) <<"p","u","b"," ","f","n"," ","c","u","r","r","e","n","t","_","s","y","s","t","e","m","_","t","i","m","e","(",")"," ","-",">"," ","S","y","s","t","e","m","T","i","m","e"," ","{","\n">> \o
    (*     #[allow(clippy::disallowed_methods)]\n *) <<" "," "," "," ","#","[","a","l","l","o","w","(","c","l","i","p","p","y",":",":","d","i","s","a","l","l","o","w","e","d","_","m","e","t","h","o","d","s",")","]","\n">> \o
    (*     SystemTime::now()\n *) <<" "," "," "," ","S","y","s","t","e","m","T","i","m","e",":",":","n","o","w","(",")","\n">> \o
    <<"}","\n">>

\* 'pub mod time_utils;'
ModDeclaration == (* pub mod time_utils; *) <<"p","u","b"," ","m","o","d"," ","t","i","m","e","_","u","t","i","l","s",";">>

\* create_time_helper_functions: mod_pattern = r'(pub mod \w+;)'
mod_pattern == <<Lit((* pub mod  *) <<"p","u","b"," ","m","o","d"," ">>), W1, Lit(<<";">>)>>

\* create_time_helper_functions: r'((?:pub mod \w+;\s*)+)'
mod_group_pattern == <<Rep1(<<Lit((* pub mod  *) <<"p","u","b"," ","m","o","d"," ">>), W1, Lit(<<";">>), WS0>>)>>

(***************************************************************************)
(* The tree.  A path is the text of str(file_path); the project root is    *)
(* 'proj' and holds at most one file in each of cli/, src/ and tests/,     *)
(* next to the crate that receives the helper module.                      *)
(***************************************************************************)
project_root == (* proj *) <<"p","r","o","j">>

CliFile == project_root \o (* /cli/main.rs *) <<"/","c","l","i","/","m","a","i","n",".","r","s">>

SrcFile == project_root \o (* /src/core.rs *) <<"/","s","r","c","/","c","o","r","e",".","r","s">>

TestFile == project_root \o (* /tests/it.rs *) <<"/","t","e","s","t","s","/","i","t",".","r","s">>

utils_dir == project_root \o (* /crates/aura-types/src *) <<"/","c","r","a","t","e","s","/","a","u","r","a","-","t","y","p","e","s","/","s","r","c">>

utils_file == utils_dir \o (* /time_utils.rs *) <<"/","t","i","m","e","_","u","t","i","l","s",".","r","s">>

lib_file == utils_dir \o (* /lib.rs *) <<"/","l","i","b",".","r","s">>

UserPaths == {CliFile, SrcFile, TestFile}

AllPaths == UserPaths \cup {utils_file, lib_file}

\* the order in which rglob("*.rs") yields the files that exist
RglobOrder == <<CliFile, lib_file, utils_file, SrcFile, TestFile>>

\* file_path.name
Name(path) == SubSeq(path, RFind(path, <<"/">>) + 1, Len(path))

Absent == [exists |-> FALSE, text |-> <<>>]

File(text) == [exists |-> TRUE, text |-> text]

(***************************************************************************)
(* The operations of SystemTimeFixer, as functions of the tree.  A file in *)
(* noread raises on open(.., 'r'), a file in nowrite raises on             *)
(* open(.., 'w') before anything is written.  A rewriter returns the tree  *)
(* it leaves, the writes it performed and the records it appended to       *)
(* fixes_applied.                                                          *)
(***************************************************************************)

Occurrence(file, line_num, line) == [file |-> file, line_num |-> line_num, line |-> line]

\* find_systemtime_usage, the body of its loop for one file
ScanOne(tree, noread, path) ==
    IF ~tree[path].exists \/ path \in noread THEN <<>>
    ELSE LET lines == ReadLines(tree[path].text)
             hit(k) == Search(pattern, lines[k])
             nums == SelectSeq([k \in 1..Len(lines) |-> k], hit)
         IN  [n \in 1..Len(nums) |-> Occurrence(path, nums[n], Strip(lines[nums[n]]))]

RECURSIVE ScanFrom(_, _, _)
ScanFrom(tree, noread, k) ==
    IF k > Len(RglobOrder) THEN <<>>
    ELSE ScanOne(tree, noread, RglobOrder[k]) \o ScanFrom(tree, noread, k + 1)

find_systemtime_usage(tree, noread) == ScanFrom(tree, noread, 1)

\* the tests of the if/elif chain of categorize_usage
IsTimestampConversion(line) == Contains(line, (* duration_since *) <<"d","u","r","a","t","i","o","n","_","s","i","n","c","e">>) /\ Contains(line, (* UNIX_EPOCH *) <<"U","N","I","X","_","E","P","O","C","H">>)

IsDirectAssignment(line) == Search(let_pattern, line)

\* IsStructField with a stricter test: a colon followed by a space
IsStructField_ColonSpace(line) == Contains(line, <<":"," ">>) /\ Contains(line, SystemTimeNow)

IsStructField(line) == Contains(line, <<":">>) /\ Contains(line, SystemTimeNow)

IsFunctionCall(line) == Contains(line, <<"(">>) /\ Contains(line, SystemTimeNow)

EmptyCategories ==
    [timestamp_conversion |-> <<>>, direct_assignment |-> <<>>, struct_field |-> <<>>,
     function_call |-> <<>>, other |-> <<>>]

\* CategorizeOne with the let-binding test moved before the conversion test
CategorizeOne_DirectFirst(categories, m) ==
    IF IsDirectAssignment(m.line)
    THEN [categories EXCEPT !.direct_assignment = Append(@, m)]
    ELSE IF IsTimestampConversion(m.line)
    THEN [categories EXCEPT !.timestamp_conversion = Append(@, m)]
    ELSE IF IsStructField(m.line)
    THEN [categories EXCEPT !.struct_field = Append(@, m)]
    ELSE IF IsFunctionCall(m.line)
    THEN [categories EXCEPT !.function_call = Append(@, m)]
    ELSE [categories EXCEPT !.other = Append(@, m)]

\* categorize_usage, the body of its loop for one match
CategorizeOne(categories, m) ==
    IF IsTimestampConversion(m.line)
    THEN [categories EXCEPT !.timestamp_conversion = Append(@, m)]
    ELSE IF IsDirectAssignment(m.line)
    THEN [categories EXCEPT !.direct_assignment = Append(@, m)]
    ELSE IF IsStructField(m.line)
    THEN [categories EXCEPT !.struct_field = Append(@, m)]
    ELSE IF IsFunctionCall(m.line)
    THEN [categories EXCEPT !.function_call = Append(@, m)]
    ELSE [categories EXCEPT !.other = Append(@, m)]

RECURSIVE CategorizeFrom(_, _, _)
CategorizeFrom(categories, ms, k) ==
    IF k > Len(ms) THEN categories
    ELSE CategorizeFrom(CategorizeOne(categories, ms[k]), ms, k + 1)

categorize_usage(ms) == CategorizeFrom(EmptyCategories, ms, 1)

Effect(tree, writes, applied) == [tree |-> tree, writes |-> writes, applied |-> applied]

NoEffect(tree) == Effect(tree, <<>>, <<>>)

\* a write of text to path: same tells whether the file already held that text
WriteRecord(tree, path, text) ==
    [file |-> path, same |-> tree[path].exists /\ tree[path].text = text]

WriteFile(tree, path, text) == [tree EXCEPT ![path] = File(text)]

\* create_time_helper_functions
create_time_helper_functions(tree, noread, nowrite) ==
    IF utils_file \in nowrite THEN NoEffect(tree)
    ELSE LET tree1 == WriteFile(tree, utils_file, utils_content)
             w1 == <<WriteRecord(tree, utils_file, utils_content)>>
             created == <<[fix |-> "Created time_utils module", file |-> utils_file, line_num |-> 0]>>
             lib_content == tree[lib_file].text
             new_content ==
                 IF Search(mod_pattern, lib_content)
                 THEN SubFrom(lib_content, 1, mod_group_pattern, ModDeclaration \o <<"\n">>, TRUE, 1)
                 ELSE ModDeclaration \o <<"\n">> \o lib_content
         IN  IF ~tree[lib_file].exists THEN Effect(tree1, w1, created)
             ELSE IF lib_file \in noread THEN Effect(tree1, w1, <<>>)
             ELSE IF Contains(lib_content, ModDeclaration) THEN Effect(tree1, w1, created)
             ELSE IF lib_file \in nowrite THEN Effect(tree1, w1, <<>>)
             ELSE Effect(WriteFile(tree1, lib_file, new_content),
                         w1 \o <<WriteRecord(tree1, lib_file, new_content)>>, created)

\* content[:next_line] + '\n' + helper_function + content[next_line:], where
\* next_line = content.find('\n', import_end) is -1 when no newline follows
InsertHelper(content, import_end) ==
    LET next_line == Find(content, <<"\n">>, import_end)
        cut == IF next_line = 0 THEN Len(content) ELSE next_line
    IN  SubSeq(content, 1, cut - 1) \o <<"\n">> \o helper_function \o SubSeq(content, cut, Len(content))

\* the helper injection of fix_timestamp_conversions
WithHelper(content) ==
    IF Contains(content, HelperSignature) THEN content
    ELSE LET import_end == RFind(content, (* use  *) <<"u","s","e"," ">>)
         IN  IF import_end # 0 THEN InsertHelper(content, import_end) ELSE content

\* the three re.sub calls of fix_timestamp_conversions
ReplaceChains(content) ==
    Sub(millis_unwrap_pattern, HelperCallMillis,
        Sub(secs_try_pattern, HelperCall,
            Sub(millis_try_pattern, HelperCallMillis, content)))

\* fix_timestamp_conversions, the body of its loop for one match
fix_timestamp_conversion(tree, noread, nowrite, m) ==
    IF m.file \in noread THEN NoEffect(tree)
    ELSE LET original_content == tree[m.file].text
             content == IF Contains(m.file, <<"c","l","i">>)
                        THEN ReplaceChains(WithHelper(original_content))
                        ELSE original_content
         IN  IF content = original_content \/ m.file \in nowrite THEN NoEffect(tree)
             ELSE Effect(WriteFile(tree, m.file, content),
                         <<WriteRecord(tree, m.file, content)>>,
                         <<[fix |-> "Timestamp conversions", file |-> Name(m.file), line_num |-> 0]>>)

\* the first k whose pattern is found in the line, 0 when there is none
FirstFix(line) ==
    LET found == {k \in 1..Len(FieldNames) : Search(fixes(k).pattern, line)}
    IN  IF found = {} THEN 0 ELSE Min(found)

\* fix_struct_fields, the body of its loop for one match
fix_struct_field(tree, noread, nowrite, m) ==
    IF m.file \in noread THEN NoEffect(tree)
    ELSE LET lines == ReadLines(tree[m.file].text)
         IN  IF m.line_num > Len(lines) THEN NoEffect(tree)
             ELSE LET original_line == lines[m.line_num]
                      k == FirstFix(original_line)
                  IN  IF k = 0 \/ m.file \in nowrite THEN NoEffect(tree)
                      ELSE LET new_lines == ListReplace(lines, m.line_num,
                                   Sub(fixes(k).pattern, fixes(k).replacement, original_line))
                           IN  Effect(WriteFile(tree, m.file, Join(new_lines)),
                                      <<WriteRecord(tree, m.file, Join(new_lines))>>,
                                      <<[fix |-> "Struct field", file |-> Name(m.file),
                                         line_num |-> m.line_num]>>)

\* fix_direct_assignments, the body of its loop for one match
fix_direct_assignment(tree, noread, nowrite, m) ==
    IF m.file \in noread THEN NoEffect(tree)
    ELSE LET lines == ReadLines(tree[m.file].text)
         IN  IF m.line_num > Len(lines) THEN NoEffect(tree)
             ELSE LET original_line == lines[m.line_num]
                      indent == LeadingWhitespace(original_line)
                      allow_line == Spaces(indent) \o AllowAttribute
                      new_lines == ListInsert(lines, m.line_num - 1, allow_line)
                  IN  IF /\ Search(let_call_pattern, original_line)
                         /\ Contains(m.file, (* test *) <<"t","e","s","t">>) \/ Contains(m.file, (* utils *) <<"u","t","i","l","s">>)
                         /\ m.file \notin nowrite
                      THEN Effect(WriteFile(tree, m.file, Join(new_lines)),
                                  <<WriteRecord(tree, m.file, Join(new_lines))>>,
                                  <<[fix |-> "Added allow attribute", file |-> Name(m.file),
                                     line_num |-> m.line_num]>>)
                      ELSE NoEffect(tree)

\* the rewriter of a bucket
Rewrite(bucket, tree, noread, nowrite, m) ==
    CASE bucket = "timestamp_conversion" -> fix_timestamp_conversion(tree, noread, nowrite, m)
      [] bucket = "struct_field" -> fix_struct_field(tree, noread, nowrite, m)
      [] bucket = "direct_assignment" -> fix_direct_assignment(tree, noread, nowrite, m)

\* a rewriter's loop over its bucket, from the k-th match on
RECURSIVE RewriteFrom(_, _, _, _, _, _)
RewriteFrom(bucket, tree, noread, nowrite, ms, k) ==
    IF k > Len(ms) THEN tree
    ELSE RewriteFrom(bucket, Rewrite(bucket, tree, noread, nowrite, ms[k]).tree,
                     noread, nowrite, ms, k + 1)

\* run_fixes: the tree one run leaves
run_fixes(tree, noread, nowrite) ==
    LET ms == find_systemtime_usage(tree, noread)
        categories == categorize_usage(ms)
        t1 == create_time_helper_functions(tree, noread, nowrite).tree
        t2 == RewriteFrom("timestamp_conversion", t1, noread, nowrite,
                          categories.timestamp_conversion, 1)
        t3 == RewriteFrom("struct_field", t2, noread, nowrite, categories.struct_field, 1)
        t4 == RewriteFrom("direct_assignment", t3, noread, nowrite,
                          categories.direct_assignment, 1)
    IN  IF Len(ms) = 0 THEN tree ELSE t4

(***************************************************************************)
(* The inputs: the trees the script is run on                              *)
(***************************************************************************)

\* the number of runs of the script on the same tree
MaxRuns == 2

\* the number of lines of a generated source file
MaxLines == 2

\* the lines a generated source file is made of
LinePool ==
    { (* use std::time::SystemTime;\n *) <<"u","s","e"," ","s","t","d",":",":","t","i","m","e",":",":","S","y","s","t","e","m","T","i","m","e",";","\n">>,
      (* let now = SystemTime::now();\n *) <<"l","e","t"," ","n","o","w"," ","="," ","S","y","s","t","e","m","T","i","m","e",":",":","n","o","w","(",")",";","\n">>,
      (*     let t = std::time::SystemTime::now();\n *) <<" "," "," "," ","l","e","t"," ","t"," ","="," ","s","t","d",":",":","t","i","m","e",":",":","S","y","s","t","e","m","T","i","m","e",":",":","n","o","w","(",")",";","\n">>,
      (* created_at: SystemTime::now(),\n *) <<"c","r","e","a","t","e","d","_","a","t",":"," ","S","y","s","t","e","m","T","i","m","e",":",":","n","o","w","(",")",",","\n">>,
      (* created_at: std::time::SystemTime::now(),\n *) <<"c","r","e","a","t","e","d","_","a","t",":"," ","s","t","d",":",":","t","i","m","e",":",":","S","y","s","t","e","m","T","i","m","e",":",":","n","o","w","(",")",",","\n">>,
      (* let s = SystemTime::now().duration_since(UNIX_EPOCH)?.as_secs();\n *) <<"l","e","t"," ","s"," ","="," ","S","y","s","t","e","m","T","i","m","e",":",":","n","o","w","(",")",".","d","u","r","a","t","i","o","n","_","s","i","n","c","e","(","U","N","I","X","_","E","P","O","C","H",")","?",".","a","s","_","s","e","c","s","(",")",";","\n">>,
      (* log(SystemTime::now());\n *) <<"l","o","g","(","S","y","s","t","e","m","T","i","m","e",":",":","n","o","w","(",")",")",";","\n">>,
      (* // no call here\n *) <<"/","/"," ","n","o"," ","c","a","l","l"," ","h","e","r","e","\n">> }

\* the texts of at most n lines of the pool
RECURSIVE TextsUpTo(_)
TextsUpTo(n) ==
    IF n = 0 THEN {<<>>}
    ELSE LET shorter == TextsUpTo(n - 1)
         IN  shorter \cup {t \o l : t \in shorter, l \in LinePool}

\* one initializer per field name, bare and namespaced
FieldLine(k, namespaced) ==
    FieldNames[k] \o <<":"," ">> \o (IF namespaced THEN StdTime ELSE <<>>) \o SystemTimeNow \o <<",","\n">>

FieldTexts == {FieldLine(k, ns) : k \in 1..Len(FieldNames), ns \in BOOLEAN}

\* a longer file: an import, two initializers and a conversion chain
LongText ==
    (* use std::time::SystemTime;\n *) <<"u","s","e"," ","s","t","d",":",":","t","i","m","e",":",":","S","y","s","t","e","m","T","i","m","e",";","\n">> \o
    (* created_at: SystemTime::now(),\n *) <<"c","r","e","a","t","e","d","_","a","t",":"," ","S","y","s","t","e","m","T","i","m","e",":",":","n","o","w","(",")",",","\n">> \o
    (* \n\n\n\n\n\n\n\n\n *) <<"\n","\n","\n","\n","\n","\n","\n","\n","\n">> \o
    (* let ms = SystemTime::now().duration_since(UNIX_EPOCH).unwrap().as_millis();\n *) <<"l","e","t"," ","m","s"," ","="," ","S","y","s","t","e","m","T","i","m","e",":",":","n","o","w","(",")",".","d","u","r","a","t","i","o","n","_","s","i","n","c","e","(","U","N","I","X","_","E","P","O","C","H",")",".","u","n","w","r","a","p","(",")",".","a","s","_","m","i","l","l","i","s","(",")",";","\n">> \o
    (* timestamp: SystemTime::now(),\n *) <<"t","i","m","e","s","t","a","m","p",":"," ","S","y","s","t","e","m","T","i","m","e",":",":","n","o","w","(",")",",","\n">>

UserTexts == TextsUpTo(MaxLines) \cup FieldTexts \cup {LongText}

\* the export files
LibTexts ==
    { (* pub mod capabilities;\n *) <<"p","u","b"," ","m","o","d"," ","c","a","p","a","b","i","l","i","t","i","e","s",";","\n">>,
      (* pub mod capabilities;\npub mod identifiers;\n\nuse std::fmt;\n *) <<"p","u","b"," ","m","o","d"," ","c","a","p","a","b","i","l","i","t","i","e","s",";","\n","p","u","b"," ","m","o","d"," ","i","d","e","n","t","i","f","i","e","r","s",";","\n","\n","u","s","e"," ","s","t","d",":",":","f","m","t",";","\n">>,
      (* pub mod capabilities;\n// errors\npub mod errors;\n *) <<"p","u","b"," ","m","o","d"," ","c","a","p","a","b","i","l","i","t","i","e","s",";","\n","/","/"," ","e","r","r","o","r","s","\n","p","u","b"," ","m","o","d"," ","e","r","r","o","r","s",";","\n">>,
      (* //! types\nuse std::fmt;\n *) <<"/","/","!"," ","t","y","p","e","s","\n","u","s","e"," ","s","t","d",":",":","f","m","t",";","\n">>,
      (* pub mod capabilities;\npub mod time_utils;\n *) <<"p","u","b"," ","m","o","d"," ","c","a","p","a","b","i","l","i","t","i","e","s",";","\n","p","u","b"," ","m","o","d"," ","t","i","m","e","_","u","t","i","l","s",";","\n">> }

DefaultLib == (* pub mod capabilities;\n *) <<"p","u","b"," ","m","o","d"," ","c","a","p","a","b","i","l","i","t","i","e","s",";","\n">>

DefaultText == (* created_at: SystemTime::now(),\n *) <<"c","r","e","a","t","e","d","_","a","t",":"," ","S","y","s","t","e","m","T","i","m","e",":",":","n","o","w","(",")",",","\n">> \o (* let now = SystemTime::now();\n *) <<"l","e","t"," ","n","o","w"," ","="," ","S","y","s","t","e","m","T","i","m","e",":",":","n","o","w","(",")",";","\n">>

EmptyTree == [p \in AllPaths |-> Absent]

\* the trees: one source file with the default export file, or the default
\* source file with any export file or none
InitialTrees ==
    {[EmptyTree EXCEPT ![p] = File(t), ![lib_file] = File(DefaultLib)] :
        p \in UserPaths, t \in UserTexts}
    \cup {[EmptyTree EXCEPT ![TestFile] = File(DefaultText), ![lib_file] = File(t)] : t \in LibTexts}
    \cup {[EmptyTree EXCEPT ![TestFile] = File(DefaultText)], EmptyTree}

\* the files whose open() fails: one file, for reading or for writing
Faults ==
    {[noread |-> {p}, nowrite |-> {}] : p \in {TestFile, lib_file}}
    \cup {[noread |-> {}, nowrite |-> {p}] : p \in {TestFile, lib_file, utils_file}}

\* the tree of the runs in which a file fails
FaultTree == [EmptyTree EXCEPT ![TestFile] = File(DefaultText), ![lib_file] = File(DefaultLib),
                               ![SrcFile] = File((* created_at: SystemTime::now(),\n *) <<"c","r","e","a","t","e","d","_","a","t",":"," ","S","y","s","t","e","m","T","i","m","e",":",":","n","o","w","(",")",",","\n">>)]

\* the inputs of a run: a tree without failing files, or FaultTree with one
Inputs ==
    {[tree |-> t, noread |-> {}, nowrite |-> {}] : t \in InitialTrees}
    \cup {[tree |-> FaultTree, noread |-> f.noread, nowrite |-> f.nowrite] : f \in Faults}

(***************************************************************************)
(* The state machine: main() runs run_fixes on the tree, MaxRuns times     *)
(***************************************************************************)
VARIABLES
    tree,           \* the files of the project: path -> [exists, text]
    noread,         \* the files that cannot be opened for reading
    nowrite,        \* the files that cannot be opened for writing
    run,            \* the number of the current run
    pc,             \* the position of run_fixes
    scanned,        \* find_systemtime_usage: the files of RglobOrder visited
    matches,        \* the list find_systemtime_usage builds
    categories,     \* the buckets of categorize_usage
    idx,            \* the position of the current rewriter in its bucket
    fixes_applied,  \* self.fixes_applied
    writes,         \* the writes of the current run, in order
    replaced,       \* the files in which this run has replaced a call chain
    start,          \* the tree before the first run
    finished        \* the trees the finished runs have left

vars == <<tree, noread, nowrite, run, pc, scanned, matches, categories, idx,
          fixes_applied, writes, replaced, start, finished>>

Rewriters == <<"timestamp_conversion", "struct_field", "direct_assignment">>

Init ==
    /\ \E input \in Inputs :
         /\ tree = input.tree
         /\ noread = input.noread
         /\ nowrite = input.nowrite
    /\ run = 1
    /\ pc = "find"
    /\ scanned = 0
    /\ matches = <<>>
    /\ categories = EmptyCategories
    /\ idx = 1
    /\ fixes_applied = <<>>
    /\ writes = <<>>
    /\ replaced = {}
    /\ start = tree
    /\ finished = <<>>

\* find_systemtime_usage: one file of the loop
ScanFile ==
    /\ pc = "find"
    /\ scanned < Len(RglobOrder)
    /\ matches' = matches \o ScanOne(tree, noread, RglobOrder[scanned + 1])
    /\ scanned' = scanned + 1
    /\ UNCHANGED <<tree, noread, nowrite, run, pc, categories, idx, fixes_applied,
                   writes, replaced, start, finished>>

\* run_fixes after the scan: return when nothing was found, else categorize
Categorize ==
    /\ pc = "find"
    /\ scanned = Len(RglobOrder)
    /\ IF Len(matches) = 0
       THEN /\ pc' = "done"
            /\ finished' = Append(finished, tree)
            /\ UNCHANGED categories
       ELSE /\ pc' = "helper"
            /\ categories' = categorize_usage(matches)
            /\ UNCHANGED finished
    /\ UNCHANGED <<tree, noread, nowrite, run, scanned, matches, idx, fixes_applied,
                   writes, replaced, start>>

\* the effect of a rewriter on the state
Apply(effect) ==
    /\ tree' = effect.tree
    /\ writes' = writes \o effect.writes
    /\ fixes_applied' = fixes_applied \o effect.applied

\* self.create_time_helper_functions()
CreateTimeHelpers ==
    /\ pc = "helper"
    /\ Apply(create_time_helper_functions(tree, noread, nowrite))
    /\ pc' = Rewriters[1]
    /\ idx' = 1
    /\ UNCHANGED <<noread, nowrite, run, scanned, matches, categories, replaced, start, finished>>

\* fix_timestamp_conversions: one match of the loop
FixTimestampConversion ==
    /\ pc = "timestamp_conversion"
    /\ idx <= Len(categories.timestamp_conversion)
    /\ LET m == categories.timestamp_conversion[idx]
           effect == fix_timestamp_conversion(tree, noread, nowrite, m)
       IN  /\ Apply(effect)
           /\ replaced' =
                IF /\ Len(effect.writes) > 0
                   /\ ReplaceChains(WithHelper(tree[m.file].text)) # WithHelper(tree[m.file].text)
                THEN replaced \cup {m.file} ELSE replaced
    /\ idx' = idx + 1
    /\ UNCHANGED <<noread, nowrite, run, pc, scanned, matches, categories, start, finished>>

\* fix_struct_fields: one match of the loop
FixStructField ==
    /\ pc = "struct_field"
    /\ idx <= Len(categories.struct_field)
    /\ Apply(fix_struct_field(tree, noread, nowrite, categories.struct_field[idx]))
    /\ idx' = idx + 1
    /\ UNCHANGED <<noread, nowrite, run, pc, scanned, matches, categories, replaced,
                   start, finished>>

\* fix_direct_assignments: one match of the loop
FixDirectAssignment ==
    /\ pc = "direct_assignment"
    /\ idx <= Len(categories.direct_assignment)
    /\ Apply(fix_direct_assignment(tree, noread, nowrite, categories.direct_assignment[idx]))
    /\ idx' = idx + 1
    /\ UNCHANGED <<noread, nowrite, run, pc, scanned, matches, categories, replaced,
                   start, finished>>

\* the end of a rewriter's loop: run_fixes calls the next rewriter, or reports and returns
NextRewriter ==
    /\ \E k \in 1..Len(Rewriters) :
         /\ pc = Rewriters[k]
         /\ idx > Len(categories[pc])
         /\ IF k < Len(Rewriters)
            THEN pc' = Rewriters[k + 1] /\ UNCHANGED finished
            ELSE pc' = "done" /\ finished' = Append(finished, tree)
    /\ idx' = 1
    /\ UNCHANGED <<tree, noread, nowrite, run, scanned, matches, categories, fixes_applied,
                   writes, replaced, start>>

\* the script is run again on the tree the last run left
RunAgain ==
    /\ pc = "done"
    /\ run < MaxRuns
    /\ run' = run + 1
    /\ pc' = "find"
    /\ scanned' = 0
    /\ matches' = <<>>
    /\ categories' = EmptyCategories
    /\ idx' = 1
    /\ fixes_applied' = <<>>
    /\ writes' = <<>>
    /\ replaced' = {}
    /\ UNCHANGED <<tree, noread, nowrite, start, finished>>

Next ==
    \/ ScanFile
    \/ Categorize
    \/ CreateTimeHelpers
    \/ FixTimestampConversion
    \/ FixStructField
    \/ FixDirectAssignment
    \/ NextRewriter
    \/ RunAgain

Spec == Init /\ [][Next]_vars

TypeOK ==
    /\ pc \in {"find", "helper", "timestamp_conversion", "struct_field", "direct_assignment", "done"}
    /\ run \in 1..MaxRuns
    /\ scanned \in 0..Len(RglobOrder)
    /\ Len(finished) \in {run - 1, run}

(***************************************************************************)
(* Properties                                                              *)
(***************************************************************************)

NoFaults == noread = {} /\ nowrite = {}

Buckets == {"timestamp_conversion", "direct_assignment", "struct_field", "function_call", "other"}

\* the occurrences of a bucket
InBucket(b) == {categories[b][k] : k \in 1..Len(categories[b])}

\* a finished run has left the tree that run_fixes computes from the tree it started on
RunMatchesSteps ==
    \A k \in 1..Len(finished) :
        finished[k] = run_fixes(IF k = 1 THEN start ELSE finished[k - 1], noread, nowrite)

\* C1: running the script twice leaves every file, after the second run,
\* with the content it had after the first run.
C1_SecondRunChangesNothing == Len(finished) >= 2 /\ NoFaults => finished[2] = finished[1]

\* C2: a file is opened for writing only when the content to be written
\* differs from the content the file holds.
C2_NoSpuriousWrites == \A k \in 1..Len(writes) : ~writes[k].same

\* C3: once categorize_usage has run, every match is in exactly one bucket
\* (the bucket sizes sum to the number of matches, no occurrence is in two
\* buckets), and a match whose line contains both 'duration_since' and
\* 'UNIX_EPOCH' is in the timestamp_conversion bucket.
C3_ClassificationTotalExclusive ==
    pc # "find" =>
        /\ Len(categories.timestamp_conversion) + Len(categories.direct_assignment)
             + Len(categories.struct_field) + Len(categories.function_call)
             + Len(categories.other) = Len(matches)
        /\ \A k \in 1..Len(matches) : \E b \in Buckets : matches[k] \in InBucket(b)
        /\ \A b1, b2 \in Buckets : b1 # b2 => InBucket(b1) \cap InBucket(b2) = {}
        /\ \A k \in 1..Len(matches) :
             Contains(matches[k].line, (* duration_since *) <<"d","u","r","a","t","i","o","n","_","s","i","n","c","e">>) /\ Contains(matches[k].line, (* UNIX_EPOCH *) <<"U","N","I","X","_","E","P","O","C","H">>)
                 => matches[k] \in InBucket("timestamp_conversion")

\* a conversion chain bound by let, with colons and parentheses, has been
\* classified, next to matches of the other buckets
C3_Witness ==
    /\ pc = "helper"
    /\ \E m \in InBucket("timestamp_conversion") :
         Search(let_pattern, m.line) /\ Contains(m.line, <<":">>) /\ Contains(m.line, <<"(">>)
    /\ InBucket("direct_assignment") \cup InBucket("struct_field") # {}

\* C4: after one run, in a file whose path contains 'test' or 'utils', every
\* direct_assignment occurrence has one annotation line right above it, with
\* the indentation of the occurrence's line, and no other line is inserted.
C4_OneAnnotationPerAssignment ==
    pc = "done" /\ run = 1 /\ NoFaults =>
        \A p \in AllPaths :
            (start[p].exists /\ (Contains(p, (* test *) <<"t","e","s","t">>) \/ Contains(p, (* utils *) <<"u","t","i","l","s">>))) =>
                LET orig == ReadLines(start[p].text)
                    final == ReadLines(tree[p].text)
                    D == {m.line_num : m \in {x \in InBucket("direct_assignment") : x.file = p}}
                    F == {m.line_num : m \in {x \in InBucket("struct_field") : x.file = p}}
                    pos(i) == i + Cardinality({d \in D : d <= i})
                IN  /\ Len(final) = Len(orig) + Cardinality(D)
                    /\ \A i \in 1..Len(orig) :
                         /\ i \notin F => final[pos(i)] = orig[i]
                         /\ i \in D => final[pos(i) - 1] =
                              SubSeq(orig[i], 1, LeadingWhitespace(orig[i])) \o AllowAttribute

\* C5: a file in which the timestamp-conversion rewriter has replaced a call
\* chain by current_unix_timestamp() defines that function exactly once.
C5_HelperDefinedOnce ==
    \A p \in replaced : Cardinality(Occurrences(tree[p].text, HelperSignature)) = 1

\* C6: a step of the struct-field rewriter changes no file but the
\* occurrence's, and in it no line but the one the Matcher captured the
\* occurrence from (the line that carries the captured text).
C6_StructFieldScope ==
    [][FixStructField =>
        LET m == categories.struct_field[idx]
            old == ReadLines(tree[m.file].text)
            new == ReadLines(tree'[m.file].text)
        IN  /\ \A p \in AllPaths \ {m.file} : tree'[p] = tree[p]
            /\ Len(new) = Len(old)
            /\ \A k \in 1..Len(old) : new[k] # old[k] => Strip(old[k]) = m.line]_vars

\* C7: when the open() of one file fails, every other file ends the run with
\* the content a run without the failure gives it.
C7_FailureIsolation ==
    pc = "done" /\ run = 1 =>
        \A p \in AllPaths \ (noread \cup nowrite) : tree[p] = run_fixes(start, {}, {})[p]

\* the lines of lib.rs that hold a 'pub mod <name>;' declaration
ModLines(lines) == {k \in 1..Len(lines) : Search(mod_pattern, lines[k])}

\* C8: when lib.rs exists without 'pub mod time_utils;', the helper injector
\* inserts that line after the last 'pub mod <name>;' line, or at the top
\* when there is none, and changes nothing else of lib.rs.
C8_RegistrationAfterLastModule ==
    [][(/\ CreateTimeHelpers
        /\ tree[lib_file].exists
        /\ ~Contains(tree[lib_file].text, ModDeclaration)
        /\ NoFaults) =>
        LET old == ReadLines(tree[lib_file].text)
            new == ReadLines(tree'[lib_file].text)
            decl == ModDeclaration \o <<"\n">>
        IN  IF ModLines(old) = {} THEN new = <<decl>> \o old
            ELSE \E j \in Max(ModLines(old))..Len(old) : new = ListInsert(old, j, decl)]_vars

\* C9: after one run, a struct_field occurrence whose line is
\* '<field>: SystemTime::now(),', bare or with 'std::time::', for any of the
\* nine field names, reads '<field>: current_timestamp,' and holds no call
\* (stated for the files that still have the lines they had).
C9_NamedFieldRewritten ==
    pc = "done" /\ run = 1 /\ NoFaults =>
        \A m \in InBucket("struct_field") :
            \A k \in 1..Len(FieldNames), ns \in BOOLEAN :
                LET final == ReadLines(tree[m.file].text)
                IN  (/\ m.line = Strip(FieldLine(k, ns))
                     /\ Len(final) = Len(ReadLines(start[m.file].text))) =>
                        /\ Strip(final[m.line_num]) = FieldNames[k] \o (* : current_timestamp, *) <<":"," ","c","u","r","r","e","n","t","_","t","i","m","e","s","t","a","m","p",",">>
                        /\ ~Contains(final[m.line_num], SystemTimeNow)

====
